---- MODULE Spec2Model ----
(***************************************************************************)
(* Commission-advance engine: the reconciliation and aggregation pipeline  *)
(* of app/business_logic.py (deduplicate_payments, calculate_earned_per_   *)
(* policy, get_latest_policy_status, determine_eligibility,                *)
(* analyze_policies, calculate_agent_quotes, compute_quotes), and the      *)
(* /advance-quote request of app/main.py with the checks and the cleaning  *)
(* of app/validators.py in front of it; also the earlier engine            *)
(* app/quotes.py behind the /v1/advance-quote route.                       *)
(*                                                                         *)
(* Representation.  A DataFrame is the sequence of its rows, a row is a    *)
(* record of its columns.  Calendar dates are proleptic Gregorian day      *)
(* ordinals (date.toordinal()), so date - timedelta(days=n) is integer     *)
(* subtraction.  Money is an integer number of dollars; the tables hold    *)
(* multiples of 5 dollars, for which the product with the rate 0.80 is a   *)
(* whole number of dollars, so the percentage arithmetic below is exact.   *)
(* Binary floating-point rounding is outside this model.                   *)
(***************************************************************************)
EXTENDS Integers, Sequences, FiniteSets, TLC

VARIABLES
    carrier_df,               \* the ledger handed to the pipeline
    crm_df,                   \* the roster handed to the pipeline
    unstable_ties,            \* how this build's quicksort orders equal keys
    pc,                       \* position in compute_quotes
    deduplicated,             \* result of deduplicate_payments(carrier_df)
    earned_by_policy,         \* result of calculate_earned_per_policy
    latest_status_by_policy,  \* result of get_latest_policy_status
    policy_analyses,          \* result of analyze_policies
    agent_quotes,             \* result of calculate_agent_quotes
    elig_call,                \* last direct call of determine_eligibility
    dedup_call,               \* last further call of deduplicate_payments
    upload,                   \* the two files posted to /advance-quote
    raised,                   \* the exception a step of the request raised
    response,                 \* the HTTP response of the request
    FROZEN_DATE,              \* config.FROZEN_DATE, read from the environment
    invocations,              \* the compute_quotes calls completed so far
    policy_summary,           \* quotes.py: the roster merged with earned, status
    quotes_result             \* quotes.py: the records compute_quotes returns

vars == <<carrier_df, crm_df, unstable_ties, quotes_result, policy_summary,
          invocations, FROZEN_DATE, pc, deduplicated, earned_by_policy,
          latest_status_by_policy, policy_analyses, agent_quotes, elig_call,
          dedup_call, upload, raised, response>>

----------------------------------------------------------------------------
(* Bounds of the explored inputs                                           *)

\* Largest number of ledger rows in an explored table
MaxLedger == 2

----------------------------------------------------------------------------
(* Configuration (app/config.py) and the frozen reference date             *)

\* ADVANCE_PERCENTAGE = 0.80, held as a percentage
ADVANCE_PERCENTAGE == 80
MAX_ADVANCE_AMOUNT == 2000
ELIGIBILITY_DAYS == 7

\* date(2025, 7, 6).toordinal()
get_today == 739438

\* os.getenv("FROZEN_DATE", "2025-07-06") with the variable unset
DefaultFrozenDate == "2025-07-06"

----------------------------------------------------------------------------
(* Generic helpers: Python/pandas primitives used by the pipeline          *)

\* float('nan') among the numbers of a table.  It stands above every amount,
\* which is where sort_values puts it (na_position='last'), and it equals
\* itself, as drop_duplicates takes it; sums and comparisons treat it below
\* as pandas and Python do.
nan == 1000000000

\* Python's ordering of the strings that occur in the tables
StrRank(s) ==
    CASE s = "101" -> 0
      [] s = "A1" -> 1
      [] s = "A2" -> 2
      [] s = "Humana" -> 3
      [] s = "P1" -> 4
      [] s = "P2" -> 5
      [] s = "active" -> 6
      [] s = "cancelled" -> 7

StrLess(a, b) == StrRank(a) < StrRank(b)

Max2(a, b) == IF a > b THEN a ELSE b

Min2(a, b) == IF a < b THEN a ELSE b

\* A sort of the rows s by insertion, where lt[<<i, j>>] says that row i sorts
\* strictly before row j.  stable = TRUE is the stable order (equal keys keep
\* their input order); stable = FALSE orders equal keys the other way round.
SortRows(s, lt, stable) ==
    LET Insert(t, x) ==
            LET k == Cardinality({j \in 1..Len(t) :
                                    IF stable THEN ~lt[<<x, t[j]>>] ELSE lt[<<t[j], x>>]})
            IN  SubSeq(t, 1, k) \o <<x>> \o SubSeq(t, k + 1, Len(t))
        order[i \in 0..Len(s)] == IF i = 0 THEN <<>> ELSE Insert(order[i - 1], i)
    IN  [k \in 1..Len(s) |-> s[order[Len(s)][k]]]

\* The subsequence of s at the positions in keep, in order
SelectIdx(s, keep) ==
    LET F[i \in 0..Len(s)] ==
            IF i = 0 THEN <<>>
            ELSE IF i \in keep THEN Append(F[i - 1], s[i]) ELSE F[i - 1]
    IN  F[Len(s)]

\* Sum of the numbers vals[i] over the positions in pick, in order
SumIdx(vals, pick) ==
    LET F[i \in 0..Len(vals)] ==
            IF i = 0 THEN 0
            ELSE IF i \in pick THEN F[i - 1] + vals[i] ELSE F[i - 1]
    IN  F[Len(vals)]

PolicyKey(r) == <<r.policy_id, r.agent_id>>

----------------------------------------------------------------------------
(* deduplicate_payments                                                    *)

\* The sort without its last column, status
DedupSortLess_NoStatus(a, b) ==
    \/ StrLess(a.policy_id, b.policy_id)
    \/ /\ a.policy_id = b.policy_id
       /\ \/ a.paid_date < b.paid_date
          \/ /\ a.paid_date = b.paid_date
             /\ a.amount < b.amount

\* sort_values(['policy_id', 'paid_date', 'amount', 'status']) : lexicographic
DedupSortLess(a, b) ==
    \/ StrLess(a.policy_id, b.policy_id)
    \/ /\ a.policy_id = b.policy_id
       /\ \/ a.paid_date < b.paid_date
          \/ /\ a.paid_date = b.paid_date
             /\ \/ a.amount < b.amount
                \/ /\ a.amount = b.amount
                   /\ StrLess(a.status, b.status)

\* The duplicate key without the amount
DedupSubset_NoAmount(r) == <<r.policy_id, r.paid_date>>

\* subset=['policy_id', 'paid_date', 'amount']
DedupSubset(r) == <<r.policy_id, r.paid_date, r.amount>>

\* The duplicate mask inverted: the rows that have a later duplicate are the
\* ones returned
DropDuplicatesKeepLast_InvertedMask(s) ==
    SelectIdx(s, {i \in 1..Len(s) :
                    \E j \in (i + 1)..Len(s) : DedupSubset(s[j]) = DedupSubset(s[i])})

\* drop_duplicates(subset=..., keep='last')
DropDuplicatesKeepLast(s) ==
    SelectIdx(s, {i \in 1..Len(s) :
                    \A j \in (i + 1)..Len(s) : DedupSubset(s[j]) # DedupSubset(s[i])})

\* The sort alone, no row dropped
deduplicate_payments_KeepAll(df) ==
    SortRows(df, [p \in (1..Len(df)) \X (1..Len(df)) |-> DedupSortLess(df[p[1]], df[p[2]])],
             TRUE)

\* A multi-column sort_values is a lexsort, which is stable
deduplicate_payments(df) ==
    LET lt == [p \in (1..Len(df)) \X (1..Len(df)) |-> DedupSortLess(df[p[1]], df[p[2]])]
    IN  DropDuplicatesKeepLast(SortRows(df, lt, TRUE))

----------------------------------------------------------------------------
(* calculate_earned_per_policy                                             *)

GroupKeys(df) == {PolicyKey(df[i]) : i \in 1..Len(df)}

\* groupby(['policy_id', 'agent_id'])['amount'].sum().to_dict()
\* sum() skips NaN
GroupSumAmount(df) ==
    [k \in GroupKeys(df) |->
        SumIdx([i \in 1..Len(df) |-> df[i].amount],
               {i \in 1..Len(df) : PolicyKey(df[i]) = k /\ df[i].amount # nan})]

\* The sum taken over the ledger as it came, duplicates included
calculate_earned_per_policy_Raw(df) == GroupSumAmount(df)

calculate_earned_per_policy(df) == GroupSumAmount(deduplicate_payments(df))

----------------------------------------------------------------------------
(* get_latest_policy_status                                                *)

\* The sort by paid date taken in descending order
PaidDateLess_Descending(a, b) == a.paid_date > b.paid_date

\* sort_values('paid_date'): ascending, by the paid date alone
PaidDateLess(a, b) == a.paid_date < b.paid_date

\* The first status of each group instead of the last
GroupLastStatus_First(df) ==
    [k \in {<<df[i].policy_id, df[i].agent_id>> : i \in 1..Len(df)} |->
        LET idx == {i \in 1..Len(df) : <<df[i].policy_id, df[i].agent_id>> = k}
            first == CHOOSE i \in idx : \A j \in idx : i <= j
        IN  df[first].status]

\* groupby(['policy_id', 'agent_id'])['status'].last().to_dict()
GroupLastStatus(df) ==
    [k \in GroupKeys(df) |->
        LET idx == {i \in 1..Len(df) : PolicyKey(df[i]) = k}
            last == CHOOSE i \in idx : \A j \in idx : j <= i
        IN  df[last].status]

\* sort_values('paid_date') is a single-column sort with the default
\* kind='quicksort', whose order of equal dates is the build's: unstable
\* says which of the two orders of equal keys this build produces.
get_latest_policy_status(df, unstable) ==
    LET lt == [p \in (1..Len(df)) \X (1..Len(df)) |-> PaidDateLess(df[p[1]], df[p[2]])]
    IN  GroupLastStatus(SortRows(df, lt, ~unstable))

----------------------------------------------------------------------------
(* determine_eligibility                                                   *)

\* The window compared strictly, which shuts the boundary day out
determine_eligibility_Strict(submit_date, latest_status, today) ==
    LET t == IF today = <<>> THEN get_today ELSE today[1]
    IN  /\ latest_status = "active"
        /\ submit_date < t - ELIGIBILITY_DAYS

\* today is Optional[date]: <<>> is None, <<d>> is the date d
determine_eligibility(submit_date, latest_status, today) ==
    LET t == IF today = <<>> THEN get_today ELSE today[1]
    IN  /\ latest_status = "active"
        /\ submit_date <= t - ELIGIBILITY_DAYS

----------------------------------------------------------------------------
(* analyze_policies                                                        *)

\* dict.get(key, default)
DictGet(d, k, default) == IF k \in DOMAIN d THEN d[k] ELSE default

\* The remaining amount without the floor at zero
RemainingExpected_Unfloored(ltv_expected, earned_to_date) ==
    ltv_expected - earned_to_date

\* remaining_expected = max(ltv_expected - earned_to_date, 0.0); max returns
\* its first argument unless the second is greater, so NaN stays NaN
RemainingExpected(ltv_expected, earned_to_date) ==
    IF ltv_expected = nan THEN nan ELSE Max2(ltv_expected - earned_to_date, 0)

\* A policy without payments taken as 'cancelled' instead of 'active'
AnalyzeRow_DefaultCancelled(crm_row, earned, status, today) ==
    LET policy_key == PolicyKey(crm_row)
        earned_to_date == DictGet(earned, policy_key, 0)
        latest_status == DictGet(status, policy_key, "cancelled")
    IN  [policy_id |-> crm_row.policy_id,
         agent_id |-> crm_row.agent_id,
         earned_to_date |-> earned_to_date,
         remaining_expected |-> RemainingExpected(crm_row.ltv_expected, earned_to_date),
         is_eligible |-> determine_eligibility(crm_row.submit_date, latest_status, <<today>>),
         submit_date |-> crm_row.submit_date,
         latest_status |-> latest_status]

\* One pass of the loop over crm_df.iterrows()
AnalyzeRow(crm_row, earned, status, today) ==
    LET policy_key == PolicyKey(crm_row)
        earned_to_date == DictGet(earned, policy_key, 0)
        latest_status == DictGet(status, policy_key, "active")
    IN  [policy_id |-> crm_row.policy_id,
         agent_id |-> crm_row.agent_id,
         earned_to_date |-> earned_to_date,
         remaining_expected |-> RemainingExpected(crm_row.ltv_expected, earned_to_date),
         is_eligible |-> determine_eligibility(crm_row.submit_date, latest_status, <<today>>),
         submit_date |-> crm_row.submit_date,
         latest_status |-> latest_status]

\* The roster joined to the ledger-derived maps as an inner join: an entry
\* without payments is left out
analyze_policies_InnerJoin(carrier, crm, unstable) ==
    LET today == get_today
        earned == calculate_earned_per_policy(carrier)
        status == get_latest_policy_status(carrier, unstable)
        paid == SelectIdx(crm, {i \in 1..Len(crm) : PolicyKey(crm[i]) \in DOMAIN earned})
    IN  [i \in 1..Len(paid) |-> AnalyzeRow(paid[i], earned, status, today)]

analyze_policies(carrier, crm, unstable) ==
    LET today == get_today
        earned == calculate_earned_per_policy(carrier)
        status == get_latest_policy_status(carrier, unstable)
    IN  [i \in 1..Len(crm) |-> AnalyzeRow(crm[i], earned, status, today)]

----------------------------------------------------------------------------
(* calculate_agent_quotes                                                  *)

\* total_earned accumulated inside the eligibility branch
AgentData_EarnedWhenEligible(analyses) ==
    [a \in {analyses[i].agent_id : i \in 1..Len(analyses)} |->
        LET n == Len(analyses)
            eligible == {i \in 1..n : analyses[i].agent_id = a /\ analyses[i].is_eligible}
        IN  [total_earned |->
                 SumIdx([i \in 1..n |-> analyses[i].earned_to_date], eligible),
             total_eligible_remaining |->
                 SumIdx([i \in 1..n |-> analyses[i].remaining_expected], eligible),
             eligible_policies_count |-> SumIdx([i \in 1..n |-> 1], eligible)]]

\* The defaultdict after the accumulation loop, one entry per agent seen
AgentData(analyses) ==
    [a \in {analyses[i].agent_id : i \in 1..Len(analyses)} |->
        LET n == Len(analyses)
            mine == {i \in 1..n : analyses[i].agent_id = a}
            eligible == {i \in mine : analyses[i].is_eligible}
        IN  [total_earned |->
                 SumIdx([i \in 1..n |-> analyses[i].earned_to_date], mine),
             total_eligible_remaining |->
                 IF \E i \in eligible : analyses[i].remaining_expected = nan
                 THEN nan
                 ELSE SumIdx([i \in 1..n |-> analyses[i].remaining_expected], eligible),
             eligible_policies_count |-> SumIdx([i \in 1..n |-> 1], eligible)]]

\* The advance without the percentage applied
CalculatedAdvance_FullRate(total_eligible_remaining) == total_eligible_remaining

\* calculated_advance = total_eligible_remaining * ADVANCE_PERCENTAGE
CalculatedAdvance(total_eligible_remaining) ==
    IF total_eligible_remaining = nan THEN nan
    ELSE (total_eligible_remaining * ADVANCE_PERCENTAGE) \div 100

\* The advance without the cap
SafeToAdvance_Uncapped(total_eligible_remaining) ==
    CalculatedAdvance(total_eligible_remaining)

\* safe_to_advance = min(calculated_advance, MAX_ADVANCE_AMOUNT); min returns
\* its first argument unless the second is smaller, so NaN stays NaN
SafeToAdvance(total_eligible_remaining) ==
    IF CalculatedAdvance(total_eligible_remaining) = nan THEN nan
    ELSE Min2(CalculatedAdvance(total_eligible_remaining), MAX_ADVANCE_AMOUNT)

MakeQuote(agent_id, data) ==
    [agent_id |-> agent_id,
     earned_to_date |-> data.total_earned,
     total_eligible_remaining |-> data.total_eligible_remaining,
     safe_to_advance |-> SafeToAdvance(data.total_eligible_remaining),
     eligible_policies_count |-> data.eligible_policies_count]

\* Only the agents that have an eligible policy
FirstSeenAgents_EligibleOnly(analyses) ==
    LET firsts ==
            SelectIdx(analyses,
                      {i \in 1..Len(analyses) :
                          /\ analyses[i].is_eligible
                          /\ \A j \in 1..(i - 1) :
                                analyses[j].is_eligible
                                    => analyses[j].agent_id # analyses[i].agent_id})
    IN  [k \in 1..Len(firsts) |-> firsts[k].agent_id]

\* dict order: the agents in the order of their first analysis
FirstSeenAgents(analyses) ==
    LET firsts ==
            SelectIdx(analyses,
                      {i \in 1..Len(analyses) :
                          \A j \in 1..(i - 1) : analyses[j].agent_id # analyses[i].agent_id})
    IN  [k \in 1..Len(firsts) |-> firsts[k].agent_id]

AgentIdLess(a, b) == StrLess(a.agent_id, b.agent_id)

\* The quotes left in dict order, without the final sort
calculate_agent_quotes_Unsorted(analyses) ==
    LET data == AgentData(analyses)
        order == FirstSeenAgents(analyses)
    IN  [k \in 1..Len(order) |-> MakeQuote(order[k], data[order[k]])]

\* list.sort(key=agent_id) is stable
calculate_agent_quotes(analyses) ==
    LET data == AgentData(analyses)
        order == FirstSeenAgents(analyses)
        quotes == [k \in 1..Len(order) |-> MakeQuote(order[k], data[order[k]])]
        lt == [p \in (1..Len(quotes)) \X (1..Len(quotes)) |->
                  AgentIdLess(quotes[p[1]], quotes[p[2]])]
    IN  SortRows(quotes, lt, TRUE)

----------------------------------------------------------------------------
(* The explored inputs                                                     *)

PolicyIds == {"P1", "P2"}
AgentIds == {"A1", "A2"}
Carriers == {"Humana"}
Statuses == {"active", "cancelled"}
\* 2025-06-15 and 2025-07-07
PaidDates == {739417, 739439}
Amounts == {-200, 200}

SeqsUpTo(S, n) == UNION {[1..k -> S] : k \in 0..n}

\* Ledgers for the direct calls of the ledger functions: every combination
AllLedgerRows ==
    [policy_id : PolicyIds, agent_id : AgentIds, carrier : Carriers,
     paid_date : PaidDates, amount : Amounts, status : Statuses]

\* Ledgers for the pipeline.  One agent with two policies, one policy paid to
\* two agents; an early payment, a late payment, a late cancellation that
\* repeats the payment, a late claw-back.
PolicyAgentPairs == {<<"P1", "A1">>, <<"P2", "A1">>, <<"P2", "A2">>}

LedgerEvents ==
    {[paid_date |-> 739417, amount |-> 200, status |-> "active"],
     [paid_date |-> 739439, amount |-> 200, status |-> "active"],
     [paid_date |-> 739439, amount |-> 200, status |-> "cancelled"],
     [paid_date |-> 739439, amount |-> -200, status |-> "cancelled"]}

LedgerRows ==
    {[policy_id |-> k[1], agent_id |-> k[2], carrier |-> "Humana",
      paid_date |-> e.paid_date, amount |-> e.amount, status |-> e.status] :
        k \in PolicyAgentPairs, e \in LedgerEvents}

\* Submitted on the eligibility boundary or the day after it.  2600 * 0.80
\* exceeds the cap and (2600 - 200) * 0.80 does not; 100 is below one payment.
RosterTerms ==
    {[submit_date |-> get_today - ELIGIBILITY_DAYS, ltv_expected |-> 2600],
     [submit_date |-> get_today - ELIGIBILITY_DAYS, ltv_expected |-> 100],
     [submit_date |-> get_today - ELIGIBILITY_DAYS + 1, ltv_expected |-> 100]}

RosterRows ==
    {[policy_id |-> k[1], agent_id |-> k[2],
      submit_date |-> t.submit_date, ltv_expected |-> t.ltv_expected] :
        k \in PolicyAgentPairs, t \in RosterTerms}

\* The roster is policy-unique: exactly one entry per policy
PolicyUnique(crm) ==
    \A i, j \in 1..Len(crm) : crm[i].policy_id = crm[j].policy_id => i = j

Rosters == {crm \in SeqsUpTo(RosterRows, Cardinality(PolicyIds)) : PolicyUnique(crm)}

\* Two rows of one (policy, agent) group share a paid date: only then does
\* the order of equal keys show in get_latest_policy_status
HasDateTie(df) ==
    \E i, j \in 1..Len(df) :
        /\ i < j
        /\ PolicyKey(df[i]) = PolicyKey(df[j])
        /\ df[i].paid_date = df[j].paid_date

TieOrders(df) == IF HasDateTie(df) THEN BOOLEAN ELSE {FALSE}

\* Arguments of the direct calls of determine_eligibility
EligArgDates == (get_today - ELIGIBILITY_DAYS - 4)..(get_today + 1)
EligArgToday == {<<>>} \cup {<<d>> : d \in (get_today - 2)..(get_today + 1)}

NoCall ==
    [called |-> FALSE, submit_date |-> get_today, latest_status |-> "active",
     today |-> <<>>, result |-> FALSE]

----------------------------------------------------------------------------
(* app/validators.py.  A table read by pd.read_csv is its set of column   *)
(* names and the sequence of its rows; a row maps each column to the text *)
(* of its cell, and an empty cell is NaN.                                  *)

NaN == "NaN"

\* pd.isna(cell)
IsNa(cell) == cell = NaN

\* str.strip() and str.lower() on the texts that occur in the tables
Strip(text) ==
    CASE text = " " -> ""
      [] text = " active" -> "active"
      [] OTHER -> text

Lower(text) ==
    CASE text = "Active" -> "active"
      [] text = "Cancelled" -> "cancelled"
      [] OTHER -> text

\* datetime.strptime(text, "%Y-%m-%d"): <<>> is ValueError, <<d>> the day
\* ordinal of the date
ParseDate(text) ==
    CASE text = "2025-06-15" -> <<739417>>
      [] text = "2025-06-29" -> <<739431>>
      [] text = "2025-06-30" -> <<739432>>
      [] text = "2025-07-06" -> <<739438>>
      [] text = "2025-07-07" -> <<739439>>
      [] OTHER -> <<>>

\* float(cell): <<>> is ValueError, <<x>> the number
ParseFloat(text) ==
    CASE text = "200" -> <<200>>
      [] text = "-200" -> <<-200>>
      [] text = "2600" -> <<2600>>
      [] text = "100" -> <<100>>
      [] text = "-5" -> <<-5>>
      [] text = "101" -> <<101>>
      [] OTHER -> <<>>

\* float(cell) raises ValueError or TypeError; float(nan) does not
FloatRaises(cell) == ~IsNa(cell) /\ ParseFloat(cell) = <<>>

CarrierRequiredColumns ==
    {"policy_id", "agent_id", "carrier", "paid_date", "amount", "status"}

CrmRequiredColumns == {"policy_id", "agent_id", "submit_date", "ltv_expected"}

\* One entry of a validator's list of error messages: the words it carries
MissingColumnsError(table, missing) ==
    [kind |-> "missing_columns", table |-> table, columns |-> missing,
     row |-> 0, fields |-> <<>>]

EmptyError(table) ==
    [kind |-> "empty", table |-> table, columns |-> {}, row |-> 0, fields |-> <<>>]

RowError(actual_row_num, row_errors) ==
    [kind |-> "row", table |-> "", columns |-> {}, row |-> actual_row_num,
     fields |-> row_errors]

\* The checks of one ledger row, in the order of the code
CarrierRowErrors(row) ==
    (IF IsNa(row.policy_id) \/ Strip(row.policy_id) = "" THEN <<"policy_id">> ELSE <<>>)
    \o (IF IsNa(row.agent_id) \/ Strip(row.agent_id) = "" THEN <<"agent_id">> ELSE <<>>)
    \o (IF IsNa(row.paid_date) \/ ParseDate(row.paid_date) = <<>>
            THEN <<"paid_date">> ELSE <<>>)
    \o (IF FloatRaises(row.amount) THEN <<"amount">> ELSE <<>>)
    \o (IF IsNa(row.status) \/ Lower(row.status) \notin Statuses
            THEN <<"status">> ELSE <<>>)

\* The rows numbered from 1 without the header line
RowLoopErrors_NoHeader(rows, RowErrors) ==
    LET F[i \in 0..Len(rows)] ==
            IF i = 0 THEN <<>>
            ELSE IF RowErrors[i] # <<>>
                 THEN Append(F[i - 1], RowError(i, RowErrors[i]))
                 ELSE F[i - 1]
    IN  F[Len(rows)]

\* The loop over the rows: one message per row that has errors, numbered
\* row_idx + 2 with row_idx counted from 0
RowLoopErrors(rows, RowErrors) ==
    LET F[i \in 0..Len(rows)] ==
            IF i = 0 THEN <<>>
            ELSE IF RowErrors[i] # <<>>
                 THEN Append(F[i - 1], RowError(i + 1, RowErrors[i]))
                 ELSE F[i - 1]
    IN  F[Len(rows)]

\* The emptiness check placed before the check of the columns
validate_carrier_remittance_csv_EmptyFirst(df) ==
    LET missing_columns == CarrierRequiredColumns \ df.columns
    IN  IF df.rows = <<>>
        THEN <<EmptyError("Carrier remittance")>>
        ELSE IF missing_columns # {}
        THEN <<MissingColumnsError("carrier remittance", missing_columns)>>
        ELSE RowLoopErrors(df.rows, [i \in 1..Len(df.rows) |-> CarrierRowErrors(df.rows[i])])

validate_carrier_remittance_csv(df) ==
    LET missing_columns == CarrierRequiredColumns \ df.columns
    IN  IF missing_columns # {}
        THEN <<MissingColumnsError("carrier remittance", missing_columns)>>
        ELSE IF df.rows = <<>>
        THEN <<EmptyError("Carrier remittance")>>
        ELSE RowLoopErrors(df.rows, [i \in 1..Len(df.rows) |-> CarrierRowErrors(df.rows[i])])

CrmRowErrors(row) ==
    (IF IsNa(row.policy_id) \/ Strip(row.policy_id) = "" THEN <<"policy_id">> ELSE <<>>)
    \o (IF IsNa(row.agent_id) \/ Strip(row.agent_id) = "" THEN <<"agent_id">> ELSE <<>>)
    \o (IF IsNa(row.submit_date) \/ ParseDate(row.submit_date) = <<>>
            THEN <<"submit_date">> ELSE <<>>)
    \o (IF FloatRaises(row.ltv_expected) THEN <<"ltv_expected">>
        ELSE IF ~IsNa(row.ltv_expected) /\ ParseFloat(row.ltv_expected)[1] < 0
             THEN <<"ltv_expected">>
        ELSE <<>>)

\* The roster checked without the test for an empty table
validate_crm_policies_csv_EmptyAccepted(df) ==
    LET missing_columns == CrmRequiredColumns \ df.columns
    IN  IF missing_columns # {}
        THEN <<MissingColumnsError("CRM policies", missing_columns)>>
        ELSE RowLoopErrors(df.rows, [i \in 1..Len(df.rows) |-> CrmRowErrors(df.rows[i])])

validate_crm_policies_csv(df) ==
    LET missing_columns == CrmRequiredColumns \ df.columns
    IN  IF missing_columns # {}
        THEN <<MissingColumnsError("CRM policies", missing_columns)>>
        ELSE IF df.rows = <<>>
        THEN <<EmptyError("CRM policies")>>
        ELSE RowLoopErrors(df.rows, [i \in 1..Len(df.rows) |-> CrmRowErrors(df.rows[i])])

\* f"Carrier Remittance - {error}" and f"CRM Policies - {error}"
Prefixed(prefix, errors) ==
    [i \in 1..Len(errors) |-> [prefix |-> prefix, error |-> errors[i]]]

\* Only the ledger's errors make the call fail
validate_csvs_CarrierOnly(carrier, crm) ==
    Prefixed("Carrier Remittance", validate_carrier_remittance_csv(carrier))

\* all_errors of validate_csvs: ValidationError is raised when it is not empty
validate_csvs(carrier, crm) ==
    Prefixed("Carrier Remittance", validate_carrier_remittance_csv(carrier))
    \o Prefixed("CRM Policies", validate_crm_policies_csv(crm))

\* read_csv gives a column a numeric dtype when every cell of it is a number,
\* and the .str accessor raises AttributeError on such a column
NumericColumn(rows, column) ==
    \A i \in 1..Len(rows) : rows[i][column] \in {"101", NaN}

\* clean_and_prepare_data uses .str on the id columns of both tables
CleanRaises(carrier, crm) ==
    \/ NumericColumn(carrier.rows, "policy_id")
    \/ NumericColumn(carrier.rows, "agent_id")
    \/ NumericColumn(crm.rows, "policy_id")
    \/ NumericColumn(crm.rows, "agent_id")

\* pd.to_numeric on a cell that holds a number or is empty
ToNumeric(text) == IF IsNa(text) THEN nan ELSE ParseFloat(text)[1]

\* clean_and_prepare_data, the ledger
CleanCarrier(carrier) ==
    [i \in 1..Len(carrier.rows) |->
        LET row == carrier.rows[i]
        IN  [policy_id |-> Strip(row.policy_id),
             agent_id |-> Strip(row.agent_id),
             carrier |-> row.carrier,
             paid_date |-> ParseDate(row.paid_date)[1],
             amount |-> ToNumeric(row.amount),
             status |-> Strip(Lower(row.status))]]

\* clean_and_prepare_data, the roster
CleanCrm(crm) ==
    [i \in 1..Len(crm.rows) |->
        LET row == crm.rows[i]
        IN  [policy_id |-> Strip(row.policy_id),
             agent_id |-> Strip(row.agent_id),
             submit_date |-> ParseDate(row.submit_date)[1],
             ltv_expected |-> ToNumeric(row.ltv_expected)]]

NoDedupCall == [called |-> FALSE, input |-> <<>>, output |-> <<>>]

\* No request: nothing posted, nothing raised, nothing answered
NoTable == [columns |-> {}, rows |-> <<>>]
NoUpload == [file_fault |-> "none", carrier |-> NoTable, crm |-> NoTable]
NoRaise == [in |-> "none", exc |-> "none"]
NoResponse ==
    [status_code |-> 0, type |-> "none", errors |-> <<>>,
     total_agents |-> 0, total_policies_analyzed |-> 0]

\* The files posted to /advance-quote.  Ledger rows: a payment, a later
\* claw-back with a capitalised status, and the payment with an empty policy
\* id, a date in another format beside an amount that is no number, an
\* amount that is no number, an unknown
\* status, a status with a leading blank, an empty amount, a policy id that
\* is a number.
RawCarrierBase ==
    [policy_id |-> "P1", agent_id |-> "A1", carrier |-> "Humana",
     paid_date |-> "2025-06-15", amount |-> "200", status |-> "active"]

RawCarrierRows ==
    {RawCarrierBase,
     [RawCarrierBase EXCEPT !.paid_date = "2025-07-07", !.amount = "-200",
                            !.status = "Cancelled"],
     [RawCarrierBase EXCEPT !.policy_id = NaN],
     [RawCarrierBase EXCEPT !.paid_date = "15/06/2025", !.amount = "abc"],
     [RawCarrierBase EXCEPT !.amount = "abc"],
     [RawCarrierBase EXCEPT !.status = "pending"],
     [RawCarrierBase EXCEPT !.status = " active"],
     [RawCarrierBase EXCEPT !.amount = NaN],
     [RawCarrierBase EXCEPT !.policy_id = "101"]}

\* Roster rows: two policies of two agents, and the first with a date in
\* another format, a negative expected value, an expected value that is no
\* number, an empty expected value.
RawCrmBase ==
    [policy_id |-> "P1", agent_id |-> "A1",
     submit_date |-> "2025-06-29", ltv_expected |-> "2600"]

RawCrmRows ==
    {RawCrmBase,
     [policy_id |-> "P2", agent_id |-> "A2",
      submit_date |-> "2025-06-30", ltv_expected |-> "100"],
     [RawCrmBase EXCEPT !.submit_date = "29/06/2025"],
     [RawCrmBase EXCEPT !.ltv_expected = "-5"],
     [RawCrmBase EXCEPT !.ltv_expected = "abc"],
     [RawCrmBase EXCEPT !.ltv_expected = NaN]}

\* The header of a file: all required columns, or some of them missing
CarrierHeaders ==
    {CarrierRequiredColumns,
     CarrierRequiredColumns \ {"status"},
     CarrierRequiredColumns \ {"amount", "status"}}

CrmHeaders == {CrmRequiredColumns, CrmRequiredColumns \ {"ltv_expected"}}

\* A row has cells for the columns of its table only
Restrict(row, columns) == [c \in columns |-> row[c]]

RawCarrierTables ==
    UNION {{[columns |-> h, rows |-> r] :
               r \in SeqsUpTo({Restrict(x, h) : x \in RawCarrierRows}, MaxLedger)} :
           h \in CarrierHeaders}

RawCrmTables ==
    UNION {{[columns |-> h, rows |-> r] :
               r \in {q \in SeqsUpTo({Restrict(x, h) : x \in RawCrmRows},
                                     Cardinality(PolicyIds)) : PolicyUnique(q)}} :
           h \in CrmHeaders}

\* What makes the reading of the files fail before any table exists
FileFaults == {"not_csv", "too_large", "undecodable", "empty_data", "parser_error"}

Uploads ==
    {[file_fault |-> "none", carrier |-> c, crm |-> r] :
        c \in RawCarrierTables, r \in RawCrmTables}
    \cup {[file_fault |-> f, carrier |-> NoTable, crm |-> NoTable] : f \in FileFaults}

\* Two rows of one policy and agent with the same date cell
RawHasDateTie(table) ==
    /\ {"policy_id", "agent_id", "paid_date"} \subseteq table.columns
    /\ \E i, j \in 1..Len(table.rows) :
          /\ i < j
          /\ table.rows[i].policy_id = table.rows[j].policy_id
          /\ table.rows[i].agent_id = table.rows[j].agent_id
          /\ table.rows[i].paid_date = table.rows[j].paid_date

\* An exception that is none of the application's own, raised while
\* compute_quotes runs
ComputeFaults == {"KeyError", "MemoryError"}

----------------------------------------------------------------------------
(* compute_quotes as a state machine                                       *)

InitResults ==
    /\ pc = "start"
    /\ quotes_result = <<>>
    /\ policy_summary = <<>>
    /\ invocations = <<>>
    /\ deduplicated = <<>>
    /\ earned_by_policy = <<>>
    /\ latest_status_by_policy = <<>>
    /\ policy_analyses = <<>>
    /\ agent_quotes = <<>>
    /\ elig_call = NoCall
    /\ dedup_call = NoDedupCall
    /\ raised = NoRaise
    /\ response = NoResponse

Init ==
    /\ carrier_df \in SeqsUpTo(LedgerRows, MaxLedger)
    /\ crm_df \in Rosters
    /\ unstable_ties \in TieOrders(carrier_df)
    /\ upload = NoUpload
    /\ FROZEN_DATE = DefaultFrozenDate
    /\ InitResults

\* compute_quotes, first call: policy_analyses = analyze_policies(...)
AnalyzePolicies ==
    /\ pc = "start"
    /\ policy_analyses' = analyze_policies(carrier_df, crm_df, unstable_ties)
    /\ pc' = "analyzed"
    /\ UNCHANGED <<carrier_df, crm_df, unstable_ties, quotes_result,
                   policy_summary, invocations, FROZEN_DATE, deduplicated,
                   earned_by_policy, latest_status_by_policy, agent_quotes,
                   elig_call, dedup_call, upload, raised, response>>

\* compute_quotes, second call and return
CalculateAgentQuotes ==
    /\ pc = "analyzed"
    /\ agent_quotes' = calculate_agent_quotes(policy_analyses)
    /\ pc' = "done"
    /\ UNCHANGED <<carrier_df, crm_df, unstable_ties, quotes_result,
                   policy_summary, invocations, FROZEN_DATE, deduplicated,
                   earned_by_policy, latest_status_by_policy, policy_analyses,
                   elig_call, dedup_call, upload, raised, response>>

Next == AnalyzePolicies \/ CalculateAgentQuotes

Spec == Init /\ [][Next]_vars

----------------------------------------------------------------------------
(* compute_quotes under a configured reference date                        *)

\* Values of the environment variable FROZEN_DATE: the default of
\* app/config.py and the day after it
FrozenDates == {DefaultFrozenDate, "2025-07-07"}

\* The process starts with FROZEN_DATE set in its environment; the pipeline
\* is the one of Spec, whose get_today() does not read the configuration
InitConfig ==
    /\ FROZEN_DATE \in FrozenDates
    /\ carrier_df \in SeqsUpTo(LedgerRows, 1)
    /\ crm_df \in Rosters
    /\ unstable_ties = FALSE
    /\ upload = NoUpload
    /\ InitResults

NextConfig == AnalyzePolicies \/ CalculateAgentQuotes

SpecConfig == InitConfig /\ [][NextConfig]_vars

----------------------------------------------------------------------------
(* Several compute_quotes calls made one after another in one process      *)

\* The list of analyses kept from the call before
NewPolicyAnalyses_Persistent(earlier) == earlier

\* policy_analyses = []: each call of analyze_policies appends to a list of
\* its own, whatever an earlier call has left behind
NewPolicyAnalyses(earlier) == <<>>

\* Ledger rows of the calls: a late payment of P2 to A1, the same payment
\* marked cancelled, the same payment under agent A2, an early payment of P1
CallLedgerRows ==
    {[policy_id |-> "P2", agent_id |-> "A1", carrier |-> "Humana",
      paid_date |-> 739439, amount |-> 200, status |-> "active"],
     [policy_id |-> "P2", agent_id |-> "A1", carrier |-> "Humana",
      paid_date |-> 739439, amount |-> 200, status |-> "cancelled"],
     [policy_id |-> "P2", agent_id |-> "A2", carrier |-> "Humana",
      paid_date |-> 739439, amount |-> 200, status |-> "active"],
     [policy_id |-> "P1", agent_id |-> "A1", carrier |-> "Humana",
      paid_date |-> 739417, amount |-> 200, status |-> "active"]}

CallRosterRows ==
    {[policy_id |-> "P1", agent_id |-> "A1",
      submit_date |-> get_today - ELIGIBILITY_DAYS, ltv_expected |-> 2600],
     [policy_id |-> "P2", agent_id |-> "A1",
      submit_date |-> get_today - ELIGIBILITY_DAYS, ltv_expected |-> 2600],
     [policy_id |-> "P2", agent_id |-> "A2",
      submit_date |-> get_today - ELIGIBILITY_DAYS, ltv_expected |-> 100]}

CallRosters ==
    {crm \in SeqsUpTo(CallRosterRows, Cardinality(PolicyIds)) : PolicyUnique(crm)}

\* The same rows in every order
Reordered(s) == {[i \in 1..Len(s) |-> s[p[i]]] : p \in Permutations(1..Len(s))}

\* The ledger rows whose (policy id, agent id) is the key of a roster entry
MatchedRows(carrier, crm) ==
    SelectIdx(carrier, {i \in 1..Len(carrier) :
                           \E j \in 1..Len(crm) : PolicyKey(carrier[i]) = PolicyKey(crm[j])})

\* Tables of another caller
UnrelatedInput ==
    [carrier |-> <<[policy_id |-> "P1", agent_id |-> "A1", carrier |-> "Humana",
                    paid_date |-> 739417, amount |-> 200, status |-> "active"]>>,
     crm |-> <<[policy_id |-> "P1", agent_id |-> "A1",
                submit_date |-> get_today - ELIGIBILITY_DAYS, ltv_expected |-> 100]>>]

\* The tables of a further call: those of the first call with their rows in
\* another order, or without the ledger rows that match no roster entry, or
\* the tables of another caller
OtherInputs(first) ==
    {[carrier |-> c, crm |-> r] : c \in Reordered(first.carrier), r \in Reordered(first.crm)}
    \cup {[carrier |-> MatchedRows(first.carrier, first.crm), crm |-> first.crm]}
    \cup {UnrelatedInput}

\* One call compute_quotes(carrier, crm) from start to return
Invoke(carrier, crm) ==
    /\ carrier_df' = carrier
    /\ crm_df' = crm
    /\ policy_analyses' = NewPolicyAnalyses(policy_analyses)
                              \o analyze_policies(carrier, crm, unstable_ties)
    /\ agent_quotes' = calculate_agent_quotes(policy_analyses')
    /\ invocations' = Append(invocations, [carrier |-> carrier, crm |-> crm,
                                           quotes |-> agent_quotes'])
    /\ UNCHANGED <<unstable_ties, quotes_result, policy_summary, FROZEN_DATE,
                   deduplicated, earned_by_policy, latest_status_by_policy,
                   elig_call, dedup_call, upload, raised, response>>

InitCalls ==
    /\ carrier_df \in SeqsUpTo(CallLedgerRows, MaxLedger)
    /\ crm_df \in CallRosters
    /\ unstable_ties \in TieOrders(carrier_df)
    /\ upload = NoUpload
    /\ FROZEN_DATE = DefaultFrozenDate
    /\ InitResults

\* The first call of the process
ComputeQuotesFirst ==
    /\ pc = "start"
    /\ Invoke(carrier_df, crm_df)
    /\ pc' = "returned"

\* A call on other tables
ComputeQuotesOther ==
    /\ pc = "returned"
    /\ Len(invocations) = 1
    /\ \E input \in OtherInputs(invocations[1]) : Invoke(input.carrier, input.crm)
    /\ pc' = "returned"

\* The first call made once more
ComputeQuotesRepeat ==
    /\ pc = "returned"
    /\ Invoke(invocations[1].carrier, invocations[1].crm)
    /\ pc' = "repeated"

NextCalls == ComputeQuotesFirst \/ ComputeQuotesOther \/ ComputeQuotesRepeat

SpecCalls == InitCalls /\ [][NextCalls]_vars

----------------------------------------------------------------------------
(* The earlier engine app/quotes.py, which the /v1/advance-quote route     *)
(* calls                                                                   *)

\* TODAY = pd.Timestamp(2025, 7, 6).date(), as a day ordinal
TODAY == 739438
SAFE_TO_ADVANCE_CAP == 2000
\* ADVANCE_RATE = 0.8, held as a percentage
ADVANCE_RATE == 80
QUOTES_ELIGIBILITY_DAYS == 7

\* Steps 1 to 5: crm_df left-merged with the earned sums (fillna(0)) and
\* with the last status of each (policy, agent) group in the order of the
\* ledger rows; an entry without ledger rows has status NaN
PolicySummary(carrier, crm) ==
    LET earned == GroupSumAmount(carrier)
        latest_status == GroupLastStatus(carrier)
    IN  [i \in 1..Len(crm) |->
            LET earned_to_date == DictGet(earned, PolicyKey(crm[i]), 0)
                status == DictGet(latest_status, PolicyKey(crm[i]), NaN)
            IN  [policy_id |-> crm[i].policy_id,
                 agent_id |-> crm[i].agent_id,
                 submit_date |-> crm[i].submit_date,
                 ltv_expected |-> crm[i].ltv_expected,
                 earned_to_date |-> earned_to_date,
                 status |-> status,
                 remaining_expected |-> crm[i].ltv_expected - earned_to_date,
                 eligible |-> /\ status = "active"
                              /\ crm[i].submit_date <= TODAY - QUOTES_ELIGIBILITY_DAYS]]

\* Step 6: per agent with an eligible policy, the rate applied to the sum
\* of remaining_expected and clipped from above
Advance(summary) ==
    LET n == Len(summary)
        eligible == {i \in 1..n : summary[i].eligible}
    IN  [a \in {summary[i].agent_id : i \in eligible} |->
            Min2((SumIdx([i \in 1..n |-> summary[i].remaining_expected],
                         {i \in eligible : summary[i].agent_id = a}) * ADVANCE_RATE)
                     \div 100,
                 SAFE_TO_ADVANCE_CAP)]

\* Step 7: per agent of the ledger, the sum of the earned sums
EarnedTotal(carrier) ==
    [a \in {carrier[i].agent_id : i \in 1..Len(carrier)} |->
        SumIdx([i \in 1..Len(carrier) |-> carrier[i].amount],
               {i \in 1..Len(carrier) : carrier[i].agent_id = a})]

\* groupby sorts its keys: the agents in ascending order
SortedKeys(S) ==
    CHOOSE seq \in [1..Cardinality(S) -> S] :
        \A i, j \in 1..Cardinality(S) : i < j => StrLess(seq[i], seq[j])

\* Step 8 and the return: one record per agent of the ledger, with 0 for an
\* agent without eligible policy
quotes_compute_quotes(carrier, crm) ==
    LET earned_total == EarnedTotal(carrier)
        advance == Advance(PolicySummary(carrier, crm))
        agents == SortedKeys(DOMAIN earned_total)
    IN  [k \in 1..Len(agents) |->
            [agent_id |-> agents[k],
             earned_to_date |-> earned_total[agents[k]],
             safe_to_advance |-> DictGet(advance, agents[k], 0)]]

InitQuotes ==
    /\ carrier_df \in SeqsUpTo(LedgerRows, MaxLedger)
    /\ crm_df \in Rosters
    /\ unstable_ties = FALSE
    /\ upload = NoUpload
    /\ FROZEN_DATE = DefaultFrozenDate
    /\ InitResults

\* compute_quotes(carrier_df, crm_df) of app/quotes.py
QuotesComputeQuotes ==
    /\ pc = "start"
    /\ policy_summary' = PolicySummary(carrier_df, crm_df)
    /\ quotes_result' = quotes_compute_quotes(carrier_df, crm_df)
    /\ pc' = "done"
    /\ UNCHANGED <<carrier_df, crm_df, unstable_ties, FROZEN_DATE,
                   invocations, deduplicated, earned_by_policy,
                   latest_status_by_policy, policy_analyses, agent_quotes,
                   elig_call, dedup_call, upload, raised, response>>

NextQuotes == QuotesComputeQuotes

SpecQuotes == InitQuotes /\ [][NextQuotes]_vars

----------------------------------------------------------------------------
(* Direct calls of the ledger functions                                    *)

InitLedger ==
    /\ carrier_df \in SeqsUpTo(AllLedgerRows, MaxLedger)
    /\ crm_df = <<>>
    /\ unstable_ties \in TieOrders(carrier_df)
    /\ upload = NoUpload
    /\ FROZEN_DATE = DefaultFrozenDate
    /\ InitResults

DeduplicatePayments ==
    /\ pc = "start"
    /\ deduplicated' = deduplicate_payments(carrier_df)
    /\ pc' = "deduplicated"
    /\ UNCHANGED <<carrier_df, crm_df, unstable_ties, quotes_result,
                   policy_summary, invocations, FROZEN_DATE, earned_by_policy,
                   latest_status_by_policy, policy_analyses, agent_quotes,
                   elig_call, dedup_call, upload, raised, response>>

CalculateEarnedPerPolicy ==
    /\ pc = "start"
    /\ earned_by_policy' = calculate_earned_per_policy(carrier_df)
    /\ pc' = "earned"
    /\ UNCHANGED <<carrier_df, crm_df, unstable_ties, quotes_result,
                   policy_summary, invocations, FROZEN_DATE, deduplicated,
                   latest_status_by_policy, policy_analyses, agent_quotes,
                   elig_call, dedup_call, upload, raised, response>>

GetLatestPolicyStatus ==
    /\ pc = "start"
    /\ latest_status_by_policy' = get_latest_policy_status(carrier_df, unstable_ties)
    /\ pc' = "status"
    /\ UNCHANGED <<carrier_df, crm_df, unstable_ties, quotes_result,
                   policy_summary, invocations, FROZEN_DATE, deduplicated,
                   earned_by_policy, policy_analyses, agent_quotes, elig_call,
                   dedup_call, upload, raised, response>>

NextLedger == DeduplicatePayments \/ CalculateEarnedPerPolicy \/ GetLatestPolicyStatus

SpecLedger == InitLedger /\ [][NextLedger]_vars

----------------------------------------------------------------------------
(* Repeated calls of deduplicate_payments                                  *)

InitDedup ==
    /\ carrier_df \in SeqsUpTo(LedgerRows, MaxLedger)
    /\ crm_df = <<>>
    /\ unstable_ties = FALSE
    /\ upload = NoUpload
    /\ FROZEN_DATE = DefaultFrozenDate
    /\ InitResults

\* deduplicate_payments applied to its own result
DeduplicateAgain ==
    /\ pc = "deduplicated"
    /\ dedup_call' = [called |-> TRUE, input |-> deduplicated,
                      output |-> deduplicate_payments(deduplicated)]
    /\ pc' = "deduplicated_again"
    /\ UNCHANGED <<carrier_df, crm_df, unstable_ties, quotes_result,
                   policy_summary, invocations, FROZEN_DATE, deduplicated,
                   earned_by_policy, latest_status_by_policy, policy_analyses,
                   agent_quotes, elig_call, upload, raised, response>>

\* deduplicate_payments applied to the same ledger with two neighbouring
\* rows exchanged; every reordering is a chain of such exchanges, and every
\* ledger of the chain is an explored ledger
DeduplicateReordered ==
    /\ pc = "deduplicated"
    /\ \E k \in 1..(Len(carrier_df) - 1) :
          LET reordered == [i \in 1..Len(carrier_df) |->
                               IF i = k THEN carrier_df[k + 1]
                               ELSE IF i = k + 1 THEN carrier_df[k]
                               ELSE carrier_df[i]]
          IN  dedup_call' = [called |-> TRUE, input |-> reordered,
                            output |-> deduplicate_payments(reordered)]
    /\ pc' = "deduplicated_reordered"
    /\ UNCHANGED <<carrier_df, crm_df, unstable_ties, quotes_result,
                   policy_summary, invocations, FROZEN_DATE, deduplicated,
                   earned_by_policy, latest_status_by_policy, policy_analyses,
                   agent_quotes, elig_call, upload, raised, response>>

NextDedup == DeduplicatePayments \/ DeduplicateAgain \/ DeduplicateReordered

SpecDedup == InitDedup /\ [][NextDedup]_vars

----------------------------------------------------------------------------
(* Direct calls of determine_eligibility                                   *)

InitEligibility ==
    /\ carrier_df = <<>>
    /\ crm_df = <<>>
    /\ unstable_ties = FALSE
    /\ upload = NoUpload
    /\ FROZEN_DATE = DefaultFrozenDate
    /\ InitResults

DetermineEligibility ==
    /\ \E s \in EligArgDates, st \in Statuses, t \in EligArgToday :
          elig_call' = [called |-> TRUE, submit_date |-> s, latest_status |-> st,
                        today |-> t, result |-> determine_eligibility(s, st, t)]
    /\ UNCHANGED <<carrier_df, crm_df, unstable_ties, quotes_result,
                   policy_summary, invocations, FROZEN_DATE, pc, deduplicated,
                   earned_by_policy, latest_status_by_policy, policy_analyses,
                   agent_quotes, dedup_call, upload, raised, response>>

NextEligibility == DetermineEligibility

SpecEligibility == InitEligibility /\ [][NextEligibility]_vars

----------------------------------------------------------------------------
(* The /advance-quote request of app/main.py                               *)

\* The exception handlers of the application, and the HTTPException that
\* advance_quote raises for every other exception
HandleException(exc, errors) ==
    CASE exc = "ValidationError" ->
             [status_code |-> 400, type |-> "validation_error", errors |-> errors,
              total_agents |-> 0, total_policies_analyzed |-> 0]
      [] exc = "BusinessLogicError" ->
             [status_code |-> 422, type |-> "business_logic_error", errors |-> errors,
              total_agents |-> 0, total_policies_analyzed |-> 0]
      [] exc = "FileProcessingError" ->
             [status_code |-> 400, type |-> "file_processing_error", errors |-> errors,
              total_agents |-> 0, total_policies_analyzed |-> 0]
      [] OTHER ->
             [status_code |-> 500, type |-> "http_exception", errors |-> errors,
              total_agents |-> 0, total_policies_analyzed |-> 0]

\* The exception let through as it was raised
WrapComputeException_Passthrough(exc) == exc

\* except Exception as e: raise BusinessLogicError(...)
WrapComputeException(exc) == "BusinessLogicError"

InitRequest ==
    /\ upload \in Uploads
    /\ carrier_df = <<>>
    /\ crm_df = <<>>
    /\ unstable_ties \in (IF RawHasDateTie(upload.carrier) THEN BOOLEAN ELSE {FALSE})
    /\ FROZEN_DATE = DefaultFrozenDate
    /\ InitResults

\* The checks of the two uploads and pd.read_csv
ReadCsvFiles ==
    /\ pc = "start"
    /\ IF upload.file_fault # "none"
       THEN /\ raised' = [in |-> "read_csv", exc |-> "FileProcessingError"]
            /\ response' = HandleException("FileProcessingError", <<>>)
            /\ pc' = "responded"
       ELSE /\ pc' = "read"
            /\ UNCHANGED <<raised, response>>
    /\ UNCHANGED <<carrier_df, crm_df, unstable_ties, quotes_result,
                   policy_summary, invocations, FROZEN_DATE, deduplicated,
                   earned_by_policy, latest_status_by_policy, policy_analyses,
                   agent_quotes, elig_call, dedup_call, upload>>

\* validate_csvs(carrier_df, crm_df)
ValidateCsvs ==
    /\ pc = "read"
    /\ LET all_errors == validate_csvs(upload.carrier, upload.crm)
       IN  IF all_errors # <<>>
           THEN /\ raised' = [in |-> "validate_csvs", exc |-> "ValidationError"]
                /\ response' = HandleException("ValidationError", all_errors)
                /\ pc' = "responded"
           ELSE /\ pc' = "validated"
                /\ UNCHANGED <<raised, response>>
    /\ UNCHANGED <<carrier_df, crm_df, unstable_ties, quotes_result,
                   policy_summary, invocations, FROZEN_DATE, deduplicated,
                   earned_by_policy, latest_status_by_policy, policy_analyses,
                   agent_quotes, elig_call, dedup_call, upload>>

\* clean_and_prepare_data(carrier_df, crm_df)
CleanAndPrepareData ==
    /\ pc = "validated"
    /\ IF CleanRaises(upload.carrier, upload.crm)
       THEN /\ raised' = [in |-> "clean_and_prepare_data", exc |-> "AttributeError"]
            /\ response' = HandleException("AttributeError", <<>>)
            /\ pc' = "responded"
            /\ UNCHANGED <<carrier_df, crm_df>>
       ELSE /\ carrier_df' = CleanCarrier(upload.carrier)
            /\ crm_df' = CleanCrm(upload.crm)
            /\ pc' = "cleaned"
            /\ UNCHANGED <<raised, response>>
    /\ UNCHANGED <<unstable_ties, quotes_result, policy_summary, invocations,
                   FROZEN_DATE, deduplicated, earned_by_policy,
                   latest_status_by_policy, policy_analyses, agent_quotes,
                   elig_call, dedup_call, upload>>

\* compute_quotes(carrier_clean, crm_clean) returns and the response is built
ComputeQuotes ==
    /\ pc = "cleaned"
    /\ policy_analyses' = analyze_policies(carrier_df, crm_df, unstable_ties)
    /\ agent_quotes' = calculate_agent_quotes(policy_analyses')
    /\ response' = [status_code |-> 200, type |-> "quotes", errors |-> <<>>,
                    total_agents |-> Len(agent_quotes'),
                    total_policies_analyzed |-> Len(crm_df)]
    /\ pc' = "responded"
    /\ UNCHANGED <<carrier_df, crm_df, unstable_ties, quotes_result,
                   policy_summary, invocations, FROZEN_DATE, deduplicated,
                   earned_by_policy, latest_status_by_policy, elig_call,
                   dedup_call, upload, raised>>

\* An exception is raised while compute_quotes runs
ComputeQuotesRaises ==
    /\ pc = "cleaned"
    /\ \E exc \in ComputeFaults :
          /\ raised' = [in |-> "compute_quotes", exc |-> exc]
          /\ response' = HandleException(WrapComputeException(exc), <<>>)
    /\ pc' = "responded"
    /\ UNCHANGED <<carrier_df, crm_df, unstable_ties, quotes_result,
                   policy_summary, invocations, FROZEN_DATE, deduplicated,
                   earned_by_policy, latest_status_by_policy, policy_analyses,
                   agent_quotes, elig_call, dedup_call, upload>>

NextRequest ==
    \/ ReadCsvFiles
    \/ ValidateCsvs
    \/ CleanAndPrepareData
    \/ ComputeQuotes
    \/ ComputeQuotesRaises

SpecRequest == InitRequest /\ [][NextRequest]_vars

----------------------------------------------------------------------------
(* Properties                                                              *)

RECURSIVE SumOver(_, _)
\* Sum of f[x] over the finite set S
SumOver(S, f) ==
    IF S = {} THEN 0
    ELSE LET x == CHOOSE y \in S : TRUE IN f[x] + SumOver(S \ {x}, f)

Analyzed == pc \in {"analyzed", "done"}

QuoteIdx == 1..Len(agent_quotes)
RosterIdx == 1..Len(crm_df)
LedgerIdx == 1..Len(carrier_df)

\* The roster entries of an agent, and those analyze_policies found eligible
EntriesOf(a) == {i \in RosterIdx : crm_df[i].agent_id = a}
EligibleEntriesOf(a) == {i \in EntriesOf(a) : policy_analyses[i].is_eligible}

\* The ledger rows that match roster entry i on (policy id, agent id)
LedgerRowsOf(i) ==
    {j \in LedgerIdx : /\ carrier_df[j].policy_id = crm_df[i].policy_id
                       /\ carrier_df[j].agent_id = crm_df[i].agent_id}

\* The rows of roster entry i with the greatest paid date
LatestRowsOf(i) ==
    {j \in LedgerRowsOf(i) :
        \A k \in LedgerRowsOf(i) : carrier_df[k].paid_date <= carrier_df[j].paid_date}

\* C1: with the default rate and cap, every AgentQuote returned by
\* compute_quotes has 0 <= safe_to_advance <= advance_cap.
C1_SafeToAdvanceInRange ==
    pc = "done" =>
        \A k \in QuoteIdx :
            /\ 0 <= agent_quotes[k].safe_to_advance
            /\ agent_quotes[k].safe_to_advance <= MAX_ADVANCE_AMOUNT

\* One agent is held at the cap while another, whose only eligible policy has
\* earned more than its expected value, is quoted 0.
C1_Witness ==
    /\ pc = "done"
    /\ \E k \in QuoteIdx : agent_quotes[k].safe_to_advance = MAX_ADVANCE_AMOUNT
    /\ \E k \in QuoteIdx :
          /\ agent_quotes[k].safe_to_advance = 0
          /\ agent_quotes[k].eligible_policies_count = 1
          /\ \E i \in EntriesOf(agent_quotes[k].agent_id) :
                /\ policy_analyses[i].is_eligible
                /\ policy_analyses[i].earned_to_date > crm_df[i].ltv_expected

\* C2: for every agent safe_to_advance = min(total_eligible_remaining x
\* advance_rate, advance_cap): the cap exactly when the rate-adjusted amount
\* exceeds it, the rate-adjusted amount otherwise, agent by agent.
C2_MinOfRateAndCap ==
    pc = "done" =>
        \A k \in QuoteIdx :
            LET q == agent_quotes[k]
                scaled == q.total_eligible_remaining * ADVANCE_PERCENTAGE
            IN  /\ scaled > MAX_ADVANCE_AMOUNT * 100
                     => q.safe_to_advance = MAX_ADVANCE_AMOUNT
                /\ scaled <= MAX_ADVANCE_AMOUNT * 100
                     => q.safe_to_advance * 100 = scaled

\* Two agents in one result: one above the cap and capped, the other below
\* it with a positive uncapped advance.
C2_Witness ==
    /\ pc = "done"
    /\ \E k, m \in QuoteIdx :
          /\ agent_quotes[k].total_eligible_remaining * ADVANCE_PERCENTAGE
                > MAX_ADVANCE_AMOUNT * 100
          /\ agent_quotes[k].safe_to_advance = MAX_ADVANCE_AMOUNT
          /\ agent_quotes[m].safe_to_advance > 0
          /\ agent_quotes[m].safe_to_advance < MAX_ADVANCE_AMOUNT

\* C3: for every roster entry remaining_expected = max(ltv_expected -
\* earned_to_date, 0), so it is never negative, also when earned_to_date is
\* negative or exceeds ltv_expected.
C3_RemainingExpectedFloored ==
    Analyzed =>
        /\ Len(policy_analyses) = Len(crm_df)
        /\ \A i \in RosterIdx :
              LET a == policy_analyses[i]
                  gap == crm_df[i].ltv_expected - a.earned_to_date
              IN  /\ a.remaining_expected >= 0
                  /\ gap >= 0 => a.remaining_expected = gap
                  /\ gap < 0 => a.remaining_expected = 0

\* One entry has earned more than its expected value, another has a negative
\* earned amount.
C3_Witness ==
    /\ pc = "analyzed"
    /\ \E i, j \in RosterIdx :
          /\ policy_analyses[i].earned_to_date > crm_df[i].ltv_expected
          /\ policy_analyses[i].remaining_expected = 0
          /\ policy_analyses[j].earned_to_date < 0
          /\ policy_analyses[j].remaining_expected > crm_df[j].ltv_expected

\* C4: determine_eligibility is true exactly when the status is 'active' and
\* submit_date <= today - eligibility_window_days; the boundary day is
\* eligible and the day after it is not.
C4_EligibilityRule ==
    elig_call.called =>
        LET t == IF elig_call.today = <<>> THEN get_today ELSE elig_call.today[1]
            age == t - elig_call.submit_date
        IN  /\ elig_call.result <=>
                  (elig_call.latest_status = "active" /\ age >= ELIGIBILITY_DAYS)
            /\ (elig_call.latest_status = "active" /\ age = ELIGIBILITY_DAYS)
                  => elig_call.result
            /\ (elig_call.latest_status = "active" /\ age = ELIGIBILITY_DAYS - 1)
                  => ~elig_call.result

\* An active policy submitted exactly the window before a supplied reference
\* date was found eligible.
C4_Witness ==
    /\ elig_call.called
    /\ elig_call.latest_status = "active"
    /\ elig_call.today # <<>>
    /\ elig_call.today[1] # get_today
    /\ elig_call.today[1] - elig_call.submit_date = ELIGIBILITY_DAYS
    /\ elig_call.result

\* Roster entry i has ledger rows and every one with the greatest paid date
\* is 'cancelled'
CancelledLatest(i) ==
    /\ LedgerRowsOf(i) # {}
    /\ \A j \in LatestRowsOf(i) : carrier_df[j].status = "cancelled"

\* C5: a roster policy whose ledger record with the greatest paid date is
\* 'cancelled' is not eligible, whatever its earlier records and its submit
\* date, and adds nothing to its agent's total_eligible_remaining,
\* eligible_policies_count or safe_to_advance.
C5_CancelledLatestNotEligible ==
    /\ Analyzed =>
          \A i \in RosterIdx : CancelledLatest(i) => ~policy_analyses[i].is_eligible
    /\ pc = "done" =>
          \A k \in QuoteIdx :
              LET q == agent_quotes[k]
                  others == {i \in EligibleEntriesOf(q.agent_id) : ~CancelledLatest(i)}
                  rest == SumOver(others,
                                  [i \in others |-> policy_analyses[i].remaining_expected])
              IN  /\ q.total_eligible_remaining = rest
                  /\ q.eligible_policies_count = Cardinality(others)
                  /\ q.safe_to_advance * 100 <= rest * ADVANCE_PERCENTAGE
                  /\ others = {} => q.safe_to_advance = 0

\* A policy old enough to be eligible, paid while active and cancelled later,
\* with expected value still outstanding, and its agent is quoted 0.
C5_Witness ==
    /\ pc = "done"
    /\ \E i \in RosterIdx :
          /\ CancelledLatest(i)
          /\ \E j \in LedgerRowsOf(i) : carrier_df[j].status = "active"
          /\ crm_df[i].submit_date <= get_today - ELIGIBILITY_DAYS
          /\ policy_analyses[i].remaining_expected > 0
          /\ \E k \in QuoteIdx :
                /\ agent_quotes[k].agent_id = crm_df[i].agent_id
                /\ agent_quotes[k].safe_to_advance = 0

\* The (policy id, paid date, amount) triple of ledger row j
TripleOf(j) == <<carrier_df[j].policy_id, carrier_df[j].paid_date, carrier_df[j].amount>>

\* The distinct triples of the ledger
LedgerTriples == {TripleOf(j) : j \in LedgerIdx}

\* The row that stands for triple x: of the rows with that triple, one whose
\* status sorts last, and of those the last in the table
KeptRowOf(x) ==
    CHOOSE j \in LedgerIdx :
        /\ TripleOf(j) = x
        /\ \A m \in LedgerIdx :
              TripleOf(m) = x =>
                  \/ carrier_df[m].status = "active" /\ carrier_df[j].status = "cancelled"
                  \/ carrier_df[m].status = carrier_df[j].status /\ m <= j

\* The triples whose kept row belongs to group k = <<policy id, agent id>>
TriplesOfGroup(k) ==
    {x \in LedgerTriples :
        /\ carrier_df[KeptRowOf(x)].policy_id = k[1]
        /\ carrier_df[KeptRowOf(x)].agent_id = k[2]}

\* C6: calculate_earned_per_policy returns, for each (policy id, agent id)
\* group, the sum of amount over the deduplicated ledger: rows identical in
\* (policy id, paid date, amount) count once, claw-backs subtract, and a
\* negative total is kept as it is.
C6_EarnedIsSumOfDistinctPayments ==
    pc = "earned" =>
        /\ DOMAIN earned_by_policy =
              {<<carrier_df[KeptRowOf(x)].policy_id, carrier_df[KeptRowOf(x)].agent_id>> :
                  x \in LedgerTriples}
        /\ \A k \in DOMAIN earned_by_policy :
              earned_by_policy[k] =
                  SumOver(TriplesOfGroup(k), [x \in TriplesOfGroup(k) |-> x[3]])
        /\ \A p \in PolicyIds :
              LET groups == {k \in DOMAIN earned_by_policy : k[1] = p}
                  payments == {x \in LedgerTriples : x[1] = p}
              IN  SumOver(groups, [k \in groups |-> earned_by_policy[k]])
                      = SumOver(payments, [x \in payments |-> x[3]])

\* The same claw-back row twice: it counts once and the total stays negative.
C6_Witness ==
    /\ pc = "earned"
    /\ Len(carrier_df) = 2
    /\ carrier_df[1] = carrier_df[2]
    /\ carrier_df[1].amount < 0
    /\ earned_by_policy[<<carrier_df[1].policy_id, carrier_df[1].agent_id>>]
          = carrier_df[1].amount

DedupIdx == 1..Len(deduplicated)

DedupTripleOf(i) ==
    <<deduplicated[i].policy_id, deduplicated[i].paid_date, deduplicated[i].amount>>

\* C7: the output of deduplicate_payments has exactly one row for each
\* distinct (policy id, paid date, amount) triple of the input: never two
\* rows with one triple and never none for a triple that was present.
C7_OneRowPerTriple ==
    pc = "deduplicated" =>
        /\ \A i, j \in DedupIdx : DedupTripleOf(i) = DedupTripleOf(j) => i = j
        /\ \A x \in LedgerTriples : \E i \in DedupIdx : DedupTripleOf(i) = x
        /\ \A i \in DedupIdx : \E j \in LedgerIdx : deduplicated[i] = carrier_df[j]

\* Two rows with one triple went in and one row came out.
C7_Witness ==
    /\ pc = "deduplicated"
    /\ Len(carrier_df) = 2
    /\ TripleOf(1) = TripleOf(2)
    /\ Len(deduplicated) = 1

\* C8: when rows sharing a triple disagree in status, the retained row has
\* the status that sorts last: 'cancelled' whenever a row of the group is
\* 'cancelled', whatever the input order.
C8_RetainedStatusSortsLast ==
    pc = "deduplicated" =>
        \A i \in DedupIdx :
            (\E j \in LedgerIdx : /\ TripleOf(j) = DedupTripleOf(i)
                                  /\ carrier_df[j].status = "cancelled")
                => deduplicated[i].status = "cancelled"

\* The 'cancelled' row comes first in the input, the 'active' duplicate after
\* it, and the 'cancelled' one is retained.
C8_Witness ==
    /\ pc = "deduplicated"
    /\ Len(carrier_df) = 2
    /\ TripleOf(1) = TripleOf(2)
    /\ carrier_df[1].status = "cancelled"
    /\ carrier_df[2].status = "active"
    /\ Len(deduplicated) = 1
    /\ deduplicated[1].status = "cancelled"

\* C9: an agent's earned_to_date is accumulated over all of its
\* PolicyAnalysis records, eligible or not; total_eligible_remaining is the
\* sum of remaining_expected over the eligible ones only and
\* eligible_policies_count is the number of eligible ones.
C9_AgentTotals ==
    pc = "done" =>
        \A k \in QuoteIdx :
            LET q == agent_quotes[k]
                all == EntriesOf(q.agent_id)
                eligible == EligibleEntriesOf(q.agent_id)
            IN  /\ q.earned_to_date =
                      SumOver(all, [i \in all |-> policy_analyses[i].earned_to_date])
                /\ q.total_eligible_remaining =
                      SumOver(eligible,
                              [i \in eligible |-> policy_analyses[i].remaining_expected])
                /\ q.eligible_policies_count = Cardinality(eligible)

\* An agent with one eligible and one ineligible policy, both with earnings:
\* the quote carries both earnings and one policy's remaining value.
C9_Witness ==
    /\ pc = "done"
    /\ \E k \in QuoteIdx, i, j \in RosterIdx :
          /\ crm_df[i].agent_id = agent_quotes[k].agent_id
          /\ crm_df[j].agent_id = agent_quotes[k].agent_id
          /\ policy_analyses[i].is_eligible
          /\ ~policy_analyses[j].is_eligible
          /\ policy_analyses[i].earned_to_date # 0
          /\ policy_analyses[j].earned_to_date # 0
          /\ policy_analyses[j].remaining_expected > 0
          /\ agent_quotes[k].eligible_policies_count = 1
          /\ agent_quotes[k].earned_to_date =
                policy_analyses[i].earned_to_date + policy_analyses[j].earned_to_date

RosterAgents == {crm_df[i].agent_id : i \in RosterIdx}

\* C10: analyze_policies emits exactly one PolicyAnalysis per roster entry,
\* and compute_quotes exactly one AgentQuote for every distinct agent id of
\* the roster, with or without eligible policies or payments, and none for
\* any other agent.
C10_OneAnalysisPerEntryOneQuotePerAgent ==
    /\ Analyzed =>
          /\ Len(policy_analyses) = Len(crm_df)
          /\ \A i \in RosterIdx :
                /\ policy_analyses[i].policy_id = crm_df[i].policy_id
                /\ policy_analyses[i].agent_id = crm_df[i].agent_id
    /\ pc = "done" =>
          /\ {agent_quotes[k].agent_id : k \in QuoteIdx} = RosterAgents
          /\ Len(agent_quotes) = Cardinality(RosterAgents)

\* Two roster agents, one with neither payments nor an eligible policy, and
\* a ledger row of an agent the roster does not name: two quotes.
C10_Witness ==
    /\ pc = "done"
    /\ Cardinality(RosterAgents) = 2
    /\ Len(agent_quotes) = 2
    /\ \E k \in QuoteIdx :
          /\ agent_quotes[k].eligible_policies_count = 0
          /\ \A j \in LedgerIdx : carrier_df[j].agent_id # agent_quotes[k].agent_id
    /\ \E k \in QuoteIdx : agent_quotes[k].eligible_policies_count > 0

\* C11: a roster policy with no matching ledger rows is not excluded: its
\* PolicyAnalysis has earned_to_date = 0 and latest_status = 'active', its
\* remaining_expected is its full ltv_expected, and it is eligible exactly
\* when its submit date is at least the window before the reference date.
C11_NoPaymentDefaults ==
    Analyzed =>
        \A i \in RosterIdx :
            LedgerRowsOf(i) = {} =>
                /\ Len(policy_analyses) >= i
                /\ policy_analyses[i].policy_id = crm_df[i].policy_id
                /\ policy_analyses[i].earned_to_date = 0
                /\ policy_analyses[i].latest_status = "active"
                /\ policy_analyses[i].remaining_expected = crm_df[i].ltv_expected
                /\ policy_analyses[i].is_eligible
                      <=> crm_df[i].submit_date <= get_today - ELIGIBILITY_DAYS

\* Two roster policies without matching ledger rows, one old enough and
\* eligible, the other submitted a day late and not eligible; the ledger has
\* the first one's policy id, under another agent.
C11_Witness ==
    /\ pc = "analyzed"
    /\ \E i, j \in RosterIdx :
          /\ LedgerRowsOf(i) = {}
          /\ LedgerRowsOf(j) = {}
          /\ policy_analyses[i].is_eligible
          /\ ~policy_analyses[j].is_eligible
          /\ policy_analyses[i].remaining_expected > 0
          /\ \E m \in LedgerIdx : carrier_df[m].policy_id = crm_df[i].policy_id

\* C12: the quote list returned by compute_quotes is sorted by agent id in
\* strictly ascending order, whatever the order of the rows in the roster
\* and the ledger.
C12_QuotesSortedByAgentId ==
    pc = "done" =>
        \A k, m \in QuoteIdx :
            k < m => StrLess(agent_quotes[k].agent_id, agent_quotes[m].agent_id)

\* The roster and the ledger both name the later agent first, and the quotes
\* come out with the earlier agent first.
C12_Witness ==
    /\ pc = "done"
    /\ Len(crm_df) = 2
    /\ StrLess(crm_df[2].agent_id, crm_df[1].agent_id)
    /\ Len(carrier_df) = 2
    /\ StrLess(carrier_df[2].agent_id, carrier_df[1].agent_id)
    /\ Len(agent_quotes) = 2
    /\ agent_quotes[1].agent_id = crm_df[2].agent_id
    /\ agent_quotes[2].agent_id = crm_df[1].agent_id

\* C13: compute_quotes on an empty roster returns an empty quote list, and
\* on an empty ledger with a non-empty roster it returns a quote for every
\* roster agent with earned_to_date = 0; in neither case does a step of the
\* computation fail to produce its result.
C13_EmptyTables ==
    /\ (pc # "done" /\ (crm_df = <<>> \/ carrier_df = <<>>)) => ENABLED Next
    /\ (Analyzed /\ crm_df = <<>>) => policy_analyses = <<>>
    /\ (pc = "done" /\ crm_df = <<>>) => agent_quotes = <<>>
    /\ (pc = "done" /\ carrier_df = <<>> /\ crm_df # <<>>) =>
          /\ {agent_quotes[k].agent_id : k \in QuoteIdx} = RosterAgents
          /\ Len(agent_quotes) = Cardinality(RosterAgents)
          /\ \A k \in QuoteIdx : agent_quotes[k].earned_to_date = 0

\* An empty ledger with a roster of two agents: two quotes, nothing earned,
\* one of them with an advance.
C13_Witness ==
    /\ pc = "done"
    /\ carrier_df = <<>>
    /\ Cardinality(RosterAgents) = 2
    /\ Len(agent_quotes) = 2
    /\ \A k \in QuoteIdx : agent_quotes[k].earned_to_date = 0
    /\ \E k \in QuoteIdx : agent_quotes[k].safe_to_advance > 0

\* The rows of a table, as a set
RowSet(df) == {df[i] : i \in 1..Len(df)}

\* C14: deduplicate_payments is idempotent: applying it to its own output
\* yields the same set of rows.
C14_DedupIdempotent ==
    pc = "deduplicated_again" =>
        /\ dedup_call.input = deduplicated
        /\ RowSet(dedup_call.output) = RowSet(deduplicated)
        /\ Len(dedup_call.output) = Len(deduplicated)

\* A ledger of a payment and its duplicate: one row after the first pass and
\* the same row after the second.
C14_Witness ==
    /\ pc = "deduplicated_again"
    /\ Len(carrier_df) = 2
    /\ TripleOf(1) = TripleOf(2)
    /\ carrier_df[1].status # carrier_df[2].status
    /\ Len(deduplicated) = 1
    /\ dedup_call.output = deduplicated

\* C15: the set of rows returned by deduplicate_payments does not depend on
\* the order of the input rows: a reordering of the same ledger, rows taken
\* with all their fields, gives the same set of retained rows.
C15_DedupOrderIndependent ==
    pc = "deduplicated_reordered" =>
        RowSet(dedup_call.output) = RowSet(deduplicated)

\* The ledger rows of group k = <<policy id, agent id>>, and those of them
\* with the greatest paid date
RowsOfGroup(k) == {j \in LedgerIdx : PolicyKey(carrier_df[j]) = k}
LatestRowsOfGroup(k) ==
    {j \in RowsOfGroup(k) :
        \A m \in RowsOfGroup(k) : carrier_df[m].paid_date <= carrier_df[j].paid_date}

\* C16: get_latest_policy_status maps each (policy id, agent id) group to
\* the status of a record with the greatest paid date in the group; when
\* that record is unique its status is the result, whatever the order of the
\* input rows and whatever the earlier statuses.
C16_LatestStatusIsOfGreatestDate ==
    pc = "status" =>
        /\ DOMAIN latest_status_by_policy = {PolicyKey(carrier_df[j]) : j \in LedgerIdx}
        /\ \A k \in DOMAIN latest_status_by_policy :
              /\ \E j \in LatestRowsOfGroup(k) :
                    latest_status_by_policy[k] = carrier_df[j].status
              /\ \A j \in LatestRowsOfGroup(k) :
                    LatestRowsOfGroup(k) = {j}
                        => latest_status_by_policy[k] = carrier_df[j].status

\* The later record of a group comes first in the input and disagrees with
\* the earlier one: the result is the later record's status.
C16_Witness ==
    /\ pc = "status"
    /\ Len(carrier_df) = 2
    /\ PolicyKey(carrier_df[1]) = PolicyKey(carrier_df[2])
    /\ carrier_df[1].paid_date > carrier_df[2].paid_date
    /\ carrier_df[1].status = "active"
    /\ carrier_df[2].status = "cancelled"
    /\ latest_status_by_policy[PolicyKey(carrier_df[1])] = "active"

\* The distinct payments of policy p: the triples of the deduplicated ledger
\* that carry its id
PaymentsOfPolicy(p) == {x \in LedgerTriples : x[1] = p}

\* C17, as claimed: for every roster entry earned_to_date equals the sum of
\* the amounts of the deduplicated ledger rows that carry the entry's policy
\* id, and it is 0 only when the ledger has no row for that policy.
C17_EarnedByPolicyId ==
    Analyzed =>
        \A i \in RosterIdx :
            LET payments == PaymentsOfPolicy(crm_df[i].policy_id)
            IN  /\ policy_analyses[i].earned_to_date =
                      SumOver(payments, [x \in payments |-> x[3]])
                /\ policy_analyses[i].earned_to_date = 0 => payments = {}

\* C17, amended: for every roster entry earned_to_date equals the sum of the
\* amounts of the deduplicated ledger rows that carry the entry's policy id
\* and agent id; it is 0 when there is no such row, and a non-zero
\* earned_to_date has such a row behind it.
C17_EarnedByPolicyAndAgent ==
    Analyzed =>
        \A i \in RosterIdx :
            LET payments == TriplesOfGroup(PolicyKey(crm_df[i]))
            IN  /\ policy_analyses[i].earned_to_date =
                      SumOver(payments, [x \in payments |-> x[3]])
                /\ payments = {} => policy_analyses[i].earned_to_date = 0
                /\ policy_analyses[i].earned_to_date # 0 => LedgerRowsOf(i) # {}

\* An entry whose payment and later claw-back cancel: two deduplicated rows
\* carry its policy id and agent id and earned_to_date is 0.
C17_Witness ==
    /\ pc = "analyzed"
    /\ \E i \in RosterIdx :
          /\ Cardinality(TriplesOfGroup(PolicyKey(crm_df[i]))) = 2
          /\ policy_analyses[i].earned_to_date = 0

\* The messages each validator has for its table of the upload
CarrierErrors == validate_carrier_remittance_csv(upload.carrier)
CrmErrors == validate_crm_policies_csv(upload.crm)

\* Some row of one of the two tables fails its checks
SomeRowFails ==
    \/ \E i \in 1..Len(CarrierErrors) : CarrierErrors[i].kind = "row"
    \/ \E i \in 1..Len(CrmErrors) : CrmErrors[i].kind = "row"

\* C18: in the /advance-quote request compute_quotes is invoked only after
\* validate_csvs has returned without error on both tables; if any row of
\* either table fails validation the request ends in a ValidationError for
\* the whole batch, no row is skipped, and no quote is produced.
C18_ComputeOnlyAfterValidation ==
    /\ (pc \in {"validated", "cleaned"} \/ response.type = "quotes"
            \/ raised.in = "compute_quotes" \/ agent_quotes # <<>>)
          => (upload.file_fault = "none" /\ CarrierErrors = <<>> /\ CrmErrors = <<>>)
    /\ (upload.file_fault = "none" /\ SomeRowFails) =>
          /\ agent_quotes = <<>>
          /\ policy_analyses = <<>>
          /\ pc = "responded" =>
                /\ raised = [in |-> "validate_csvs", exc |-> "ValidationError"]
                /\ response.type = "validation_error"
                /\ response.total_agents = 0
    /\ response.type = "quotes" =>
          /\ Len(carrier_df) = Len(upload.carrier.rows)
          /\ Len(crm_df) = Len(upload.crm.rows)
          /\ Len(policy_analyses) = Len(upload.crm.rows)
          /\ response.total_policies_analyzed = Len(upload.crm.rows)

\* A valid ledger and a roster of a valid row followed by a row whose
\* expected value is no number: the request ended in a ValidationError and
\* nothing was computed.
C18_Witness ==
    /\ pc = "responded"
    /\ CarrierErrors = <<>>
    /\ Len(upload.crm.rows) = 2
    /\ Len(CrmErrors) = 1
    /\ CrmErrors[1].kind = "row"
    /\ CrmErrors[1].row = 3
    /\ response.type = "validation_error"
    /\ agent_quotes = <<>>

\* The messages of the response that validate_csvs prefixed with a table
ResponseErrorsOf(prefix) ==
    SelectIdx(response.errors,
              {i \in 1..Len(response.errors) : response.errors[i].prefix = prefix})

\* The messages are one message, which names the table and these columns
\* and no row
OnlyMissingColumns(errors, table, missing) ==
    /\ Len(errors) = 1
    /\ errors[1].error.kind = "missing_columns"
    /\ errors[1].error.table = table
    /\ errors[1].error.columns = missing
    /\ errors[1].error.row = 0
    /\ errors[1].error.fields = <<>>

CarrierMissing == CarrierRequiredColumns \ upload.carrier.columns
CrmMissing == CrmRequiredColumns \ upload.crm.columns

\* C19: when a required column is absent from a table, the validation of
\* that table returns exactly one error, which names the missing column(s)
\* and the table; no row of that table is checked; and validate_csvs raises
\* ValidationError before any quote is computed.
C19_MissingColumnsOneError ==
    (upload.file_fault = "none" /\ (CarrierMissing # {} \/ CrmMissing # {})) =>
        /\ pc \in {"start", "read", "responded"}
        /\ policy_analyses = <<>>
        /\ agent_quotes = <<>>
        /\ pc = "responded" =>
              /\ raised = [in |-> "validate_csvs", exc |-> "ValidationError"]
              /\ response.type = "validation_error"
              /\ CarrierMissing # {} =>
                    OnlyMissingColumns(ResponseErrorsOf("Carrier Remittance"),
                                       "carrier remittance", CarrierMissing)
              /\ CrmMissing # {} =>
                    OnlyMissingColumns(ResponseErrorsOf("CRM Policies"),
                                       "CRM policies", CrmMissing)

\* The ledger lacks two columns and has a row with an empty policy id, the
\* roster is complete and has a row with a bad date: one message for the
\* ledger, about its columns, and one for the roster, about its row.
C19_Witness ==
    /\ pc = "responded"
    /\ CarrierMissing = {"amount", "status"}
    /\ \E i \in 1..Len(upload.carrier.rows) : IsNa(upload.carrier.rows[i].policy_id)
    /\ CrmMissing = {}
    /\ Len(response.errors) = 2
    /\ response.errors[1].error.kind = "missing_columns"
    /\ response.errors[2].error.kind = "row"

\* C20: in the /advance-quote request the failure categories stay apart:
\* every validation failure is reported as validation_error with HTTP 400,
\* every exception raised inside compute_quotes as business_logic_error with
\* HTTP 422, no computation failure is reported as validation_error and no
\* validation failure as business_logic_error.
C20_FailureCategoriesDistinct ==
    pc = "responded" =>
        /\ (upload.file_fault = "none" /\ (CarrierErrors # <<>> \/ CrmErrors # <<>>))
              => raised.in = "validate_csvs"
        /\ raised.in = "validate_csvs" =>
              /\ response.type = "validation_error"
              /\ response.status_code = 400
        /\ raised.in = "compute_quotes" =>
              /\ response.type = "business_logic_error"
              /\ response.status_code = 422
        /\ response.type = "validation_error" => raised.in = "validate_csvs"
        /\ response.type = "business_logic_error" => raised.in = "compute_quotes"
        /\ response.type = "file_processing_error" <=> raised.in = "read_csv"

\* Both tables passed validation and cleaning and a KeyError was raised
\* while compute_quotes ran: the answer is business_logic_error, HTTP 422.
C20_Witness ==
    /\ pc = "responded"
    /\ CarrierErrors = <<>>
    /\ CrmErrors = <<>>
    /\ carrier_df # <<>>
    /\ raised = [in |-> "compute_quotes", exc |-> "KeyError"]
    /\ response.type = "business_logic_error"
    /\ response.status_code = 422

----------------------------------------------------------------------------
(* C21: the reference date of the pipeline is the configured one.  Every   *)
(* analysis made by analyze_policies carries the eligibility that          *)
(* determine_eligibility gives for the roster entry's submit date and the  *)
(* policy's latest status on the date of FROZEN_DATE.                      *)
C21_ReferenceDateFromConfig ==
    Analyzed =>
        \A i \in RosterIdx :
            policy_analyses[i].is_eligible =
                determine_eligibility(crm_df[i].submit_date,
                                      policy_analyses[i].latest_status,
                                      ParseDate(FROZEN_DATE))

----------------------------------------------------------------------------
(* C22: over a sequence of compute_quotes calls, the quotes a call returns *)
(* are a function of its two tables: two calls of the sequence on the same *)
(* tables returned the same quotes, whatever calls ran before or between.  *)
InvocationIdx == 1..Len(invocations)

C22_QuotesFunctionOfTables ==
    \A i, j \in InvocationIdx :
        (/\ invocations[i].carrier = invocations[j].carrier
         /\ invocations[i].crm = invocations[j].crm)
            => invocations[i].quotes = invocations[j].quotes

\* The first call returned a quote with earnings, a call on other tables
\* returned other quotes, then the first call was repeated
C22_Witness ==
    /\ pc = "repeated"
    /\ Len(invocations) = 3
    /\ invocations[2].carrier # invocations[1].carrier
    /\ invocations[2].crm # invocations[1].crm
    /\ invocations[2].quotes # invocations[1].quotes
    /\ invocations[3].carrier = invocations[1].carrier
    /\ invocations[3].crm = invocations[1].crm
    /\ \E q \in 1..Len(invocations[1].quotes) :
          invocations[1].quotes[q].earned_to_date > 0

----------------------------------------------------------------------------
\* The messages of the response about ledger row i name this field
CarrierFieldReported(i, field) ==
    \E k \in 1..Len(response.errors) :
        /\ response.errors[k].prefix = "Carrier Remittance"
        /\ response.errors[k].error.kind = "row"
        /\ response.errors[k].error.row = i + 1
        /\ \E f \in 1..Len(response.errors[k].error.fields) :
              response.errors[k].error.fields[f] = field

\* The ledger of the request has its columns and a row: its rows are checked
CarrierRowsChecked ==
    /\ upload.file_fault = "none"
    /\ CarrierMissing = {}
    /\ upload.carrier.rows # <<>>

\* The status cell is 'active' or 'cancelled' once trimmed and lower-cased
StatusInDomain(cell) == ~IsNa(cell) /\ Strip(Lower(cell)) \in Statuses

(* C23: a ledger row whose status is 'active' or 'cancelled' after         *)
(* trimming and lower-casing is accepted by the validation of the ledger,  *)
(* any other status is reported for its row, and the cleaned ledger holds  *)
(* the trimmed lower-case status.                                          *)
C23_StatusTrimmedCaseInsensitive ==
    CarrierRowsChecked =>
        \A i \in 1..Len(upload.carrier.rows) :
            LET cell == upload.carrier.rows[i].status
            IN  /\ raised.in = "validate_csvs" =>
                      (CarrierFieldReported(i, "status") <=> ~StatusInDomain(cell))
                /\ pc \in {"validated", "cleaned"} => StatusInDomain(cell)
                /\ carrier_df # <<>> => carrier_df[i].status = Strip(Lower(cell))

----------------------------------------------------------------------------
\* The roster of the request has its columns and a row: its rows are checked
CrmRowsChecked ==
    /\ upload.file_fault = "none"
    /\ CrmMissing = {}
    /\ upload.crm.rows # <<>>

\* The messages of a table are one per failing row and no other: the row at
\* 1-based position i of the data is named i + 1, which is its 0-based
\* position plus 2, with all its failing fields in the order of the checks
OneEntryPerFailingRow(entries, failing) ==
    /\ Len(entries) = Cardinality({i \in DOMAIN failing : failing[i] # <<>>})
    /\ \A k \in 1..Len(entries) :
          /\ entries[k].error.kind = "row"
          /\ entries[k].error.row - 1 \in DOMAIN failing
          /\ entries[k].error.fields # <<>>
          /\ entries[k].error.fields = failing[entries[k].error.row - 1]
    /\ \A k, l \in 1..Len(entries) :
          k < l => entries[k].error.row < entries[l].error.row

(* C24: every value error the validators report names its row as 'Row n',  *)
(* n being the row's 0-based position in the data plus 2, and names the    *)
(* offending field; all failing fields of a row are in the single entry of *)
(* that row and every failing row has an entry.                            *)
C24_RowErrorsNumberedFromTwo ==
    raised.in = "validate_csvs" =>
        /\ CarrierRowsChecked =>
              OneEntryPerFailingRow(
                  ResponseErrorsOf("Carrier Remittance"),
                  [i \in 1..Len(upload.carrier.rows) |->
                      CarrierRowErrors(upload.carrier.rows[i])])
        /\ CrmRowsChecked =>
              OneEntryPerFailingRow(
                  ResponseErrorsOf("CRM Policies"),
                  [i \in 1..Len(upload.crm.rows) |-> CrmRowErrors(upload.crm.rows[i])])

\* A ledger of two rows: the first has a date in another format and an
\* amount that is no number, the second an unknown status.  The answer
\* names Row 2 with both fields and Row 3 with the status; the roster's
\* second row is named Row 3.
C24_Witness ==
    /\ pc = "responded"
    /\ raised.in = "validate_csvs"
    /\ CarrierRowsChecked
    /\ Len(upload.carrier.rows) = 2
    /\ Len(ResponseErrorsOf("Carrier Remittance")) = 2
    /\ ResponseErrorsOf("Carrier Remittance")[1].error.row = 2
    /\ ResponseErrorsOf("Carrier Remittance")[1].error.fields = <<"paid_date", "amount">>
    /\ ResponseErrorsOf("Carrier Remittance")[2].error.row = 3
    /\ ResponseErrorsOf("Carrier Remittance")[2].error.fields = <<"status">>
    /\ Len(ResponseErrorsOf("CRM Policies")) = 1
    /\ ResponseErrorsOf("CRM Policies")[1].error.row = 3

----------------------------------------------------------------------------
\* The messages are one message, which says that this table is empty
OnlyEmpty(errors, table) ==
    /\ Len(errors) = 1
    /\ errors[1].error.kind = "empty"
    /\ errors[1].error.table = table
    /\ errors[1].error.row = 0
    /\ errors[1].error.fields = <<>>

CarrierEmpty == CarrierMissing = {} /\ upload.carrier.rows = <<>>
CrmEmpty == CrmMissing = {} /\ upload.crm.rows = <<>>

(* C25: a table that has all its required columns and no data row is       *)
(* rejected with exactly one error, which says that the table is empty,    *)
(* the ledger and the roster alike; validate_csvs raises ValidationError   *)
(* when either table is empty, and nothing is computed.                    *)
C25_EmptyTableOneError ==
    (upload.file_fault = "none" /\ (CarrierEmpty \/ CrmEmpty)) =>
        /\ pc \in {"start", "read", "responded"}
        /\ policy_analyses = <<>>
        /\ agent_quotes = <<>>
        /\ pc = "responded" =>
              /\ raised = [in |-> "validate_csvs", exc |-> "ValidationError"]
              /\ response.type = "validation_error"
              /\ CarrierEmpty =>
                    OnlyEmpty(ResponseErrorsOf("Carrier Remittance"), "Carrier remittance")
              /\ CrmEmpty => OnlyEmpty(ResponseErrorsOf("CRM Policies"), "CRM policies")

\* The ledger is valid and the roster has its columns and no row: the only
\* message of the answer is the one about the empty roster
C25_Witness ==
    /\ pc = "responded"
    /\ upload.carrier.rows # <<>>
    /\ CarrierErrors = <<>>
    /\ CrmEmpty
    /\ Len(response.errors) = 1
    /\ response.errors[1].prefix = "CRM Policies"
    /\ response.errors[1].error.kind = "empty"

----------------------------------------------------------------------------
\* The ledger rows of an agent
LedgerRowsOfAgent(a) == {j \in LedgerIdx : carrier_df[j].agent_id = a}

(* C26: in compute_quotes of app/quotes.py a roster policy whose ledger     *)
(* record with the greatest paid date is 'cancelled' is not eligible and   *)
(* adds nothing to its agent's safe_to_advance, in whatever order the      *)
(* ledger rows come; the agent's earned_to_date is the net sum of the      *)
(* agent's payments, claw-backs included.                                  *)
C26_QuotesCancelledLatestNotEligible ==
    pc = "done" =>
        /\ \A i \in RosterIdx : CancelledLatest(i) => ~policy_summary[i].eligible
        /\ \A k \in 1..Len(quotes_result) :
              LET q == quotes_result[k]
              IN  /\ q.earned_to_date =
                        SumOver(LedgerRowsOfAgent(q.agent_id),
                                [j \in LedgerRowsOfAgent(q.agent_id) |->
                                    carrier_df[j].amount])
                  /\ (\A i \in EntriesOf(q.agent_id) : CancelledLatest(i))
                        => q.safe_to_advance = 0

----------------------------------------------------------------------------
\* The rows of the deduplicated ledger d that match roster entry i, and
\* those of them with the greatest paid date
DedupRowsOf(d, i) == {j \in 1..Len(d) : PolicyKey(d[j]) = PolicyKey(crm_df[i])}

DedupLatestRowsOf(d, i) ==
    {j \in DedupRowsOf(d, i) :
        \A k \in DedupRowsOf(d, i) : d[k].paid_date <= d[j].paid_date}

(* C27: the latest_status that analyze_policies gives a roster policy is   *)
(* the latest status of the deduplicated ledger: when the rows that the    *)
(* deduplicated ledger holds for the policy at its greatest paid date      *)
(* carry one status, that is the policy's latest_status.  In particular,   *)
(* duplicates of one (policy id, paid date, amount) triple that disagree   *)
(* in status give 'cancelled', in whatever order they come.                *)
C27_LatestStatusOverDeduplicated ==
    Analyzed =>
        \A i \in RosterIdx :
            LET d == deduplicate_payments(carrier_df)
            IN  \A st \in Statuses :
                    (/\ DedupRowsOf(d, i) # {}
                     /\ \A j \in DedupLatestRowsOf(d, i) : d[j].status = st)
                        => policy_analyses[i].latest_status = st

----------------------------------------------------------------------------
\* A checked table of the request has a row with an empty number cell
MissingAmount ==
    /\ CarrierRowsChecked
    /\ \E i \in 1..Len(upload.carrier.rows) : IsNa(upload.carrier.rows[i].amount)

MissingLtvExpected ==
    /\ CrmRowsChecked
    /\ \E i \in 1..Len(upload.crm.rows) : IsNa(upload.crm.rows[i].ltv_expected)

(* C28: validate_csvs raises ValidationError whenever the amount of a      *)
(* ledger row or the ltv_expected of a roster row is missing: the request  *)
(* never gets past validation with such a row, and no quote is computed    *)
(* from it.                                                                *)
C28_MissingNumberRejected ==
    (MissingAmount \/ MissingLtvExpected) =>
        /\ pc \in {"start", "read", "responded"}
        /\ pc = "responded" =>
              raised = [in |-> "validate_csvs", exc |-> "ValidationError"]
        /\ policy_analyses = <<>>
        /\ agent_quotes = <<>>

----------------------------------------------------------------------------
(* C29: the quotes compute_quotes returns do not depend on the order of    *)
(* the ledger rows or of the roster rows: two calls whose tables hold the  *)
(* same rows, in whatever order, returned the same list of quotes, also    *)
(* when a policy has rows of one paid date with different statuses.        *)
C29_QuotesOrderIndependent ==
    \A i, j \in InvocationIdx :
        (/\ invocations[j].carrier \in Reordered(invocations[i].carrier)
         /\ invocations[j].crm \in Reordered(invocations[i].crm))
            => invocations[j].quotes = invocations[i].quotes

----------------------------------------------------------------------------
(* C30: ledger rows whose (policy id, agent id) matches no roster entry    *)
(* have no effect on the quotes: a call on the ledger without those rows   *)
(* and the same roster returned the same quotes, and no call returned a    *)
(* quote for an agent that is not on its roster.                           *)
C30_UnmatchedRowsNoEffect ==
    /\ \A i, j \in InvocationIdx :
          (/\ invocations[j].crm = invocations[i].crm
           /\ invocations[j].carrier =
                  MatchedRows(invocations[i].carrier, invocations[i].crm))
              => invocations[j].quotes = invocations[i].quotes
    /\ \A i \in InvocationIdx :
          \A q \in 1..Len(invocations[i].quotes) :
              \E r \in 1..Len(invocations[i].crm) :
                  invocations[i].crm[r].agent_id = invocations[i].quotes[q].agent_id

====
